---- MODULE Spec2Model ----
(***************************************************************************)
(* Model of network-grpc/src/client.rs: the gRPC client of a blockchain    *)
(* node.  A Client issues calls (tip, pull_blocks_to_tip, tip_header) on   *)
(* one connection; every call returns an adapter (ResponseFuture,          *)
(* ResponseStreamFuture, and from the latter a ResponseStream) that the    *)
(* caller polls.  The wrapped tower-grpc futures and streams are the       *)
(* environment: what each of their polls returns is chosen freely.         *)
(***************************************************************************)
EXTENDS Integers, Sequences, FiniteSets, TLC

\* ------------------------------------------------------------------ bounds
\* Calls made on the connection.
MaxCalls == 2
\* Identifiers in one pull_blocks_to_tip argument list.
MaxIds == 2
\* Polls (over all adapters) on which the wire side reports NotReady.
MaxNotReady == 2
\* Polls (over all item streams) on which the wire stream reports an event.
MaxItems == 3

\* ------------------------------------------------ domain byte formats
\* Identifiers are numbers written as IdWidth big-endian bytes.
IdWidth == 2

ByteBase == 256

\* Identifier values callers pass; the last one has no IdWidth-byte encoding.
IdValues == {1, 256, 65536}

\* <T::Id as Serialize>::serialize(&self, writer): appends to the writer.
IdSerialize(x, v) ==
    IF x < ByteBase * ByteBase
    THEN [ok |-> TRUE, buf |-> v \o <<x \div ByteBase, x % ByteBase>>]
    ELSE [ok |-> FALSE, buf |-> v]

\* <T::Id as Deserialize>::deserialize(reader): reads IdWidth bytes.
IdDeserialize(buf) ==
    IF Len(buf) >= IdWidth
    THEN [ok |-> TRUE, val |-> buf[1] * ByteBase + buf[2]]
    ELSE [ok |-> FALSE, cause |-> "bytes"]

\* <T as Deserialize>::deserialize for a block: a length byte, then the body.
BlockDeserialize(buf) ==
    IF Len(buf) >= 1 /\ Len(buf) >= 1 + buf[1]
    THEN [ok |-> TRUE, val |-> [body |-> SubSeq(buf, 2, 1 + buf[1])]]
    ELSE [ok |-> FALSE, cause |-> "bytes"]

Digits == <<"0", "1", "2", "3", "4", "5", "6", "7", "8", "9">>

IsDigit(c) == \E d \in 1..Len(Digits) : Digits[d] = c

DigitVal(c) == (CHOOSE d \in 1..Len(Digits) : Digits[d] = c) - 1

RECURSIVE ParseNat(_)
ParseNat(s) ==
    IF s = <<>> THEN 0
    ELSE ParseNat(SubSeq(s, 1, Len(s) - 1)) * Len(Digits) + DigitVal(s[Len(s)])

\* <T::Date as FromStr>::from_str: "<epoch>-<slot>", both decimal numbers.
DateFromStr(s) ==
    LET seps == {i \in 1..Len(s) : s[i] = "-"}
    IN  IF Cardinality(seps) = 1
        THEN LET p == CHOOSE i \in seps : TRUE
                 a == SubSeq(s, 1, p - 1)
                 b == SubSeq(s, p + 1, Len(s))
             IN  IF /\ a # <<>> /\ b # <<>>
                    /\ \A i \in 1..Len(a) : IsDigit(a[i])
                    /\ \A i \in 1..Len(b) : IsDigit(b[i])
                 THEN [ok |-> TRUE, val |-> [epoch |-> ParseNat(a), slot |-> ParseNat(b)]]
                 ELSE [ok |-> FALSE, cause |-> "date"]
        ELSE [ok |-> FALSE, cause |-> "date"]

\* ------------------------------------------------------- wire messages
\* gen::node::TipResponse { id, blockdate } as the peer may send it.
TipResponses ==
    [id : {<<170, 187>>, <<1>>}, blockdate : {<<"1", "2", "-", "7">>, <<"1", "2">>}]

\* gen::node::Block { content } as the peer may send it; the last is malformed.
WireBlocks == {[content |-> <<1, 7>>], [content |-> <<1, 9>>], [content |-> <<2, 7>>]}

\* tower_grpc::Error values a wire future or stream may return.
WireErrors == {"reset"}

\* ------------------------------------------------------ poll results
NotReady == [tag |-> "NotReady"]

Ready(v) == [tag |-> "Ready", val |-> v]

ReadySome(v) == [tag |-> "ReadySome", val |-> v]

ReadyNone == [tag |-> "ReadyNone"]

Err(e) == [tag |-> "Err", err |-> e]

Panic == [tag |-> "Panic"]

\* In the history: the operation did not poll the wire side.
NotPolled == [tag |-> "NotPolled"]

Ok(v) == [ok |-> TRUE, val |-> v]

Fail(e) == [ok |-> FALSE, err |-> e]

\* --------------------------------------------------------- conversions
\* core_client::Error::new(kind, cause)
CoreError(kind, cause) == [kind |-> kind, cause |-> cause]

\* Mutant: a wire error classified as a payload error.
convert_error_as_format(e) == CoreError("Format", e)

convert_error(e) == CoreError("Rpc", e)

deserialize_bytes_id(buf) ==
    LET r == IdDeserialize(buf)
    IN  IF r.ok THEN Ok(r.val) ELSE Fail(CoreError("Format", r.cause))

deserialize_bytes_block(buf) ==
    LET r == BlockDeserialize(buf)
    IN  IF r.ok THEN Ok(r.val) ELSE Fail(CoreError("Format", r.cause))

parse_str(s) ==
    LET r == DateFromStr(s)
    IN  IF r.ok THEN Ok(r.val) ELSE Fail(CoreError("Format", r.cause))

\* Mutant: an unparsable date replaced by a default date.
TipResponse_convert_response_default_date(self) ==
    LET id == deserialize_bytes_id(self.id)
        blockdate == parse_str(self.blockdate)
    IN  IF ~id.ok THEN id
        ELSE IF ~blockdate.ok THEN Ok(<<id.val, [epoch |-> 0, slot |-> 0]>>)
        ELSE Ok(<<id.val, blockdate.val>>)

\* impl ConvertResponse<(I, D)> for gen::node::TipResponse
TipResponse_convert_response(self) ==
    LET id == deserialize_bytes_id(self.id)
        blockdate == parse_str(self.blockdate)
    IN  IF ~id.ok THEN id
        ELSE IF ~blockdate.ok THEN blockdate
        ELSE Ok(<<id.val, blockdate.val>>)

\* impl ConvertResponse<T> for gen::node::Block
Block_convert_response(self) ==
    LET block == deserialize_bytes_block(self.content)
    IN  IF ~block.ok THEN block ELSE Ok(block.val)

\* Mutant: the values serialized back to front.
serialize_to_vec_reversed(values) ==
    IF \E i \in 1..Len(values) : ~IdSerialize(values[i], <<>>).ok
    THEN [panic |-> TRUE, vec |-> <<>>]
    ELSE [panic |-> FALSE,
          vec |-> [i \in 1..Len(values) |->
                     IdSerialize(values[Len(values) + 1 - i], <<>>).buf]]

RECURSIVE SerializeAll(_, _)
SerializeAll(values, n) ==
    IF n = 0 THEN <<>> ELSE IdSerialize(values[n], SerializeAll(values, n - 1)).buf

\* Mutant: a value that fails to serialize is left out instead of panicking.
serialize_to_vec_skips_failed(values) ==
    LET good == SelectSeq(values, LAMBDA x : IdSerialize(x, <<>>).ok)
    IN  [panic |-> FALSE,
         vec |-> [i \in 1..Len(good) |-> IdSerialize(good[i], <<>>).buf]]

\* Mutant: one Vec shared by all values instead of a fresh one each.
serialize_to_vec_shared_buffer(values) ==
    IF \E i \in 1..Len(values) : ~IdSerialize(values[i], <<>>).ok
    THEN [panic |-> TRUE, vec |-> <<>>]
    ELSE [panic |-> FALSE, vec |-> [i \in 1..Len(values) |-> SerializeAll(values, i)]]

\* serialize_to_vec: one fresh Vec per value, in order; unwrap panics on failure.
serialize_to_vec(values) ==
    IF \E i \in 1..Len(values) : ~IdSerialize(values[i], <<>>).ok
    THEN [panic |-> TRUE, vec |-> <<>>]
    ELSE [panic |-> FALSE,
          vec |-> [i \in 1..Len(values) |-> IdSerialize(values[i], <<>>).buf]]


\* ------------------------------------------------------------ adapters
\* ResponseFuture::new / ResponseStreamFuture::new: State::Pending(future)
ResponseFuture_new == [kind |-> "unary", state |-> "Pending"]

ResponseStreamFuture_new == [kind |-> "stream", state |-> "Pending"]

\* unary_future::poll_and_convert_response, on what future.poll() returned
unary_poll_and_convert_response(w) ==
    CASE w.tag = "NotReady" -> NotReady
      [] w.tag = "Ready" ->
            LET item == TipResponse_convert_response(w.val)
            IN  IF item.ok THEN Ready(item.val) ELSE Err(item.err)
      [] w.tag = "Err" -> Err(convert_error(w.err))

\* Mutant: opening the stream is treated as a payload to convert, and the
\* conversion failure is reported by the stream-opening future.
stream_future_poll_and_convert_response_converts(w) ==
    CASE w.tag = "NotReady" -> NotReady
      [] w.tag = "Ready" -> Err(CoreError("Format", "decode"))
      [] w.tag = "Err" -> Err(convert_error(w.err))

\* stream_future::poll_and_convert_response: wraps the transport stream as it is
stream_future_poll_and_convert_response(w) ==
    CASE w.tag = "NotReady" -> NotReady
      [] w.tag = "Ready" -> Ready([inner |-> w.val])
      [] w.tag = "Err" -> Err(convert_error(w.err))

\* Mutant: a failed conversion leaves the adapter Pending.
ResponseFuture_poll_pending_after_format_err(self, w) ==
    IF self.state = "Pending"
    THEN LET res == unary_poll_and_convert_response(w)
         IN  IF res.tag = "NotReady" \/ (res.tag = "Err" /\ res.err.kind = "Format")
             THEN [self |-> self, res |-> res, polled |-> TRUE]
             ELSE [self |-> [self EXCEPT !.state = "Finished"], res |-> res,
                   polled |-> TRUE]
    ELSE [self |-> self, res |-> Panic, polled |-> FALSE]

\* Mutant: a finished adapter polls its wire future again.
ResponseFuture_poll_repolls_when_finished(self, w) ==
    LET res == unary_poll_and_convert_response(w)
    IN  IF res.tag = "NotReady"
        THEN [self |-> self, res |-> NotReady, polled |-> TRUE]
        ELSE [self |-> [self EXCEPT !.state = "Finished"], res |-> res,
              polled |-> TRUE]

\* Mutant: Finished only on success, so an error leaves the adapter Pending.
ResponseFuture_poll_pending_after_err(self, w) ==
    IF self.state = "Pending"
    THEN LET res == unary_poll_and_convert_response(w)
         IN  IF res.tag = "Ready"
             THEN [self |-> [self EXCEPT !.state = "Finished"], res |-> res,
                   polled |-> TRUE]
             ELSE [self |-> self, res |-> res, polled |-> TRUE]
    ELSE [self |-> self, res |-> Panic, polled |-> FALSE]

\* impl Future for ResponseFuture: poll. w is what the wire future returns if polled.
ResponseFuture_poll(self, w) ==
    IF self.state = "Pending"
    THEN LET res == unary_poll_and_convert_response(w)
         IN  IF res.tag = "NotReady"
             THEN [self |-> self, res |-> NotReady, polled |-> TRUE]
             ELSE [self |-> [self EXCEPT !.state = "Finished"], res |-> res,
                   polled |-> TRUE]
    ELSE [self |-> self, res |-> Panic, polled |-> FALSE]

\* Mutant: the state is taken (left Finished) before the wire future is polled
\* and is not put back when that future is not ready.
ResponseStreamFuture_poll_finishes_on_not_ready(self, w) ==
    IF self.state = "Pending"
    THEN [self |-> [self EXCEPT !.state = "Finished"],
          res |-> stream_future_poll_and_convert_response(w), polled |-> TRUE]
    ELSE [self |-> self, res |-> Panic, polled |-> FALSE]

\* Mutant: a wire error is held back and reported as NotReady.
ResponseStreamFuture_poll_holds_back_err(self, w) ==
    IF self.state = "Pending"
    THEN LET res == stream_future_poll_and_convert_response(w)
         IN  IF res.tag = "Ready"
             THEN [self |-> [self EXCEPT !.state = "Finished"], res |-> res,
                   polled |-> TRUE]
             ELSE [self |-> self, res |-> NotReady, polled |-> TRUE]
    ELSE [self |-> self, res |-> Panic, polled |-> FALSE]

\* Mutant: a finished adapter answers NotReady instead of panicking.
ResponseStreamFuture_poll_not_ready_when_finished(self, w) ==
    IF self.state = "Pending"
    THEN LET res == stream_future_poll_and_convert_response(w)
         IN  IF res.tag = "NotReady"
             THEN [self |-> self, res |-> NotReady, polled |-> TRUE]
             ELSE [self |-> [self EXCEPT !.state = "Finished"], res |-> res,
                   polled |-> TRUE]
    ELSE [self |-> self, res |-> NotReady, polled |-> FALSE]

\* impl Future for ResponseStreamFuture: poll
ResponseStreamFuture_poll(self, w) ==
    IF self.state = "Pending"
    THEN LET res == stream_future_poll_and_convert_response(w)
         IN  IF res.tag = "NotReady"
             THEN [self |-> self, res |-> NotReady, polled |-> TRUE]
             ELSE [self |-> [self EXCEPT !.state = "Finished"], res |-> res,
                   polled |-> TRUE]
    ELSE [self |-> self, res |-> Panic, polled |-> FALSE]

\* Mutant: a wire stream that is not ready is reported as ended.
poll_and_convert_item_end_when_not_ready(w) ==
    CASE w.tag = "NotReady" -> ReadyNone
      [] w.tag = "ReadyNone" -> ReadyNone
      [] w.tag = "ReadySome" ->
            LET item == Block_convert_response(w.val)
            IN  IF item.ok THEN ReadySome(item.val) ELSE Err(item.err)
      [] w.tag = "Err" -> Err(convert_error(w.err))

\* Mutant: a converted item is swallowed instead of being yielded.
poll_and_convert_item_drops_item(w) ==
    CASE w.tag = "NotReady" -> NotReady
      [] w.tag = "ReadyNone" -> ReadyNone
      [] w.tag = "ReadySome" ->
            LET item == Block_convert_response(w.val)
            IN  IF item.ok THEN NotReady ELSE Err(item.err)
      [] w.tag = "Err" -> Err(convert_error(w.err))

\* stream::poll_and_convert_item, on what stream.poll() returned
poll_and_convert_item(w) ==
    CASE w.tag = "NotReady" -> NotReady
      [] w.tag = "ReadyNone" -> ReadyNone
      [] w.tag = "ReadySome" ->
            LET item == Block_convert_response(w.val)
            IN  IF item.ok THEN ReadySome(item.val) ELSE Err(item.err)
      [] w.tag = "Err" -> Err(convert_error(w.err))

\* impl Stream for ResponseStream: poll
ResponseStream_poll(self, w) == poll_and_convert_item(w)

\* -------------------------------------------------------------- client
TipRequest == [rpc |-> "Tip", from |-> <<>>]

PullBlocksToTipRequest(from) == [rpc |-> "PullBlocksToTip", from |-> from]

\* Mutant: the request is sent again (a retry).
Client_tip_sends_twice(node) ==
    [panic |-> FALSE, node |-> Append(Append(node, TipRequest), TipRequest),
     fut |-> ResponseFuture_new]

\* BlockService::tip: one request on the connection `node`, one adapter
Client_tip(node) ==
    [panic |-> FALSE, node |-> Append(node, TipRequest), fut |-> ResponseFuture_new]

\* BlockService::pull_blocks_to_tip
Client_pull_blocks_to_tip(node, from) ==
    LET ser == serialize_to_vec(from)
    IN  IF ser.panic
        THEN [panic |-> TRUE, node |-> node]
        ELSE [panic |-> FALSE,
              node |-> Append(node, PullBlocksToTipRequest(ser.vec)),
              fut |-> ResponseStreamFuture_new]

\* Mutant: a header-tip request is sent and an adapter returned.
Client_tip_header_implemented(node) ==
    [panic |-> FALSE, node |-> Append(node, [rpc |-> "TipHeader", from |-> <<>>]),
     fut |-> ResponseFuture_new]

\* HeaderService::tip_header: unimplemented!()
Client_tip_header(node) == [panic |-> TRUE, node |-> node]

\* Mutant: a failed connection attempt is swallowed and reported as pending.
Client_connect_swallows_error(w) ==
    CASE w.tag = "NotReady" -> NotReady
      [] w.tag = "Ready" -> Ready("Client")
      [] w.tag = "Err" -> NotReady

\* Client::connect: map_err(Error::Connect), map(|conn| Client { node })
Client_connect(w) ==
    CASE w.tag = "NotReady" -> NotReady
      [] w.tag = "Ready" -> Ready("Client")
      [] w.tag = "Err" -> Err([kind |-> "Connect", cause |-> w.err])

\* --------------------------------------------------------------- state
VARIABLES
    conn,       \* the connect future: "connecting", "ready" (Client built), "failed"
    node,       \* requests sent on the connection, in order
    futs,       \* the adapter each returned call handed out (parallel to node)
    streams,    \* per call: the ResponseStream handed out and its wire stream
    calls,      \* calls made to tip / pull_blocks_to_tip, returned or not
    args,       \* history: the identifier list each returned call was given
    outcomes,   \* history: the terminal outcomes each future adapter has returned
    wirePolls,  \* history: per future adapter, the polls made of its wire future
    last,       \* history: the latest operation, what the wire side returned, its result
    nNotReady,  \* polls so far on which the wire side reported NotReady
    nItems      \* polls so far on which a wire stream reported an event

vars ==
    <<conn, node, futs, streams, calls, args, outcomes, wirePolls, last, nNotReady,
      nItems>>

RECURSIVE SeqsUpTo(_, _)
SeqsUpTo(S, n) ==
    IF n = 0 THEN {<<>>}
    ELSE LET shorter == SeqsUpTo(S, n - 1)
         IN  shorter \cup {Append(q, x) : q \in shorter, x \in S}

\* Identifier lists callers pass: all of them up to MaxIds, and the short ones.
IdLists == SeqsUpTo(IdValues, MaxIds)

ShortIdLists == SeqsUpTo(IdValues, 1)

NoStream == [open |-> FALSE, inner |-> [ended |-> FALSE], delivered |-> <<>>,
             observed |-> <<>>]

NewStream(rs) == [open |-> TRUE, inner |-> rs.inner, delivered |-> <<>>,
                  observed |-> <<>>]

\* No poll of the wire future yet; `done` once a poll of it returned Ready or
\* Err, `late` once it was polled after that.
NoWirePolls == [done |-> FALSE, late |-> FALSE]

WirePolled(h, wire) ==
    IF wire.tag = "NotPolled" THEN h
    ELSE [done |-> h.done \/ wire.tag # "NotReady", late |-> h.late \/ h.done]

\* Mutant: the state is shared by the adapters of one kind.
FutsAfterPoll_shared_state(fs, i, self) ==
    [j \in DOMAIN fs |-> IF fs[j].kind = self.kind THEN self ELSE fs[j]]

\* self.state = ...: the assignment reaches the polled adapter alone.
FutsAfterPoll(fs, i, self) == [fs EXCEPT ![i] = self]

Op(op, i, arg, pre, wire, out) ==
    [op |-> op, i |-> i, arg |-> arg, pre |-> pre, wire |-> wire, out |-> out]

\* The wire side may report NotReady while the bound on such polls allows it.
WireNotReady == IF nNotReady < MaxNotReady THEN {NotReady} ELSE {}

\* What a wire future (connect, unary, server-streaming) may return when polled.
WireConnectPolls ==
    WireNotReady
        \cup {Ready("Connection")} \cup {Err(e) : e \in {"refused"}}

WireUnaryPolls ==
    WireNotReady
        \cup {Ready(m) : m \in TipResponses} \cup {Err(e) : e \in WireErrors}

WireStreamFuturePolls ==
    WireNotReady
        \cup {Ready([ended |-> FALSE])} \cup {Err(e) : e \in WireErrors}

\* What Streaming::poll may return: once it has ended it stays ended.
WireStreamPolls(inner) ==
    IF inner.ended THEN {ReadyNone}
    ELSE WireNotReady
            \cup {ReadySome(b) : b \in WireBlocks} \cup {ReadyNone}
            \cup {Err(e) : e \in WireErrors}

Init ==
    /\ conn = "connecting"
    /\ node = <<>>
    /\ futs = <<>>
    /\ streams = <<>>
    /\ calls = 0
    /\ args = <<>>
    /\ outcomes = <<>>
    /\ wirePolls = <<>>
    /\ last = Op("none", 0, <<>>, "none", NotPolled, NotReady)
    /\ nNotReady = 0
    /\ nItems = 0

Bump(w) == IF w.tag = "NotReady" THEN nNotReady + 1 ELSE nNotReady

\* The driver polls the future returned by Client::connect.
PollConnect ==
    /\ conn = "connecting"
    /\ \E w \in WireConnectPolls :
         LET res == Client_connect(w)
         IN  /\ conn' = CASE res.tag = "NotReady" -> "connecting"
                          [] res.tag = "Ready" -> "ready"
                          [] res.tag = "Err" -> "failed"
             /\ last' = Op("connect", 0, <<>>, conn, w, res)
             /\ nNotReady' = Bump(w)
    /\ UNCHANGED <<node, futs, streams, calls, args, outcomes, wirePolls, nItems>>

Tip ==
    /\ conn = "ready"
    /\ calls < MaxCalls
    /\ LET r == Client_tip(node)
       IN  /\ node' = r.node
           /\ futs' = Append(futs, r.fut)
           /\ streams' = Append(streams, NoStream)
           /\ args' = Append(args, <<>>)
           /\ outcomes' = Append(outcomes, <<>>)
           /\ wirePolls' = Append(wirePolls, NoWirePolls)
           /\ last' = Op("tip", Len(futs) + 1, <<>>, "none", NotPolled, Ready(r.fut))
    /\ calls' = calls + 1
    /\ UNCHANGED <<conn, nNotReady, nItems>>

PullBlocksToTip(lists) ==
    /\ conn = "ready"
    /\ calls < MaxCalls
    /\ \E from \in lists :
         LET r == Client_pull_blocks_to_tip(node, from)
         IN  IF r.panic
             THEN /\ last' = Op("pull_blocks_to_tip", 0, from, "none", NotPolled, Panic)
                  /\ UNCHANGED <<node, futs, streams, args, outcomes, wirePolls>>
             ELSE /\ node' = r.node
                  /\ futs' = Append(futs, r.fut)
                  /\ streams' = Append(streams, NoStream)
                  /\ args' = Append(args, from)
                  /\ outcomes' = Append(outcomes, <<>>)
                  /\ wirePolls' = Append(wirePolls, NoWirePolls)
                  /\ last' = Op("pull_blocks_to_tip", Len(futs) + 1, from, "none",
                                NotPolled, Ready(r.fut))
    /\ calls' = calls + 1
    /\ UNCHANGED <<conn, nNotReady, nItems>>

TipHeader ==
    /\ conn = "ready"
    /\ LET r == Client_tip_header(node)
       IN  /\ node' = r.node
           /\ last' = Op("tip_header", 0, <<>>, "none", NotPolled,
                         IF r.panic THEN Panic ELSE Ready(r.fut))
    /\ UNCHANGED <<conn, futs, streams, calls, args, outcomes, wirePolls, nNotReady,
                   nItems>>

IsTerminal(res) == res.tag \in {"Ready", "Err"}

\* The driver polls the ResponseFuture of call i.
PollFutureAt(i) ==
    /\ i \in 1..Len(futs)
    /\ futs[i].kind = "unary"
    /\ \E w \in WireUnaryPolls :
         LET r == ResponseFuture_poll(futs[i], w)
             wire == IF r.polled THEN w ELSE NotPolled
         IN  /\ futs' = FutsAfterPoll(futs, i, r.self)
             /\ outcomes' = [outcomes EXCEPT
                               ![i] = IF IsTerminal(r.res) THEN Append(@, r.res) ELSE @]
             /\ wirePolls' = [wirePolls EXCEPT ![i] = WirePolled(@, wire)]
             /\ last' = Op("poll_future", i, <<>>, futs[i].state, wire, r.res)
             /\ nNotReady' = Bump(wire)
    /\ UNCHANGED <<conn, node, streams, calls, args, nItems>>

PollFuture == \E i \in 1..Len(futs) : PollFutureAt(i)

\* The driver polls the ResponseStreamFuture of call i.
PollStreamFutureAt(i) ==
    /\ i \in 1..Len(futs)
    /\ futs[i].kind = "stream"
    /\ \E w \in WireStreamFuturePolls :
         LET r == ResponseStreamFuture_poll(futs[i], w)
             wire == IF r.polled THEN w ELSE NotPolled
         IN  /\ futs' = FutsAfterPoll(futs, i, r.self)
             /\ outcomes' = [outcomes EXCEPT
                               ![i] = IF IsTerminal(r.res) THEN Append(@, r.res) ELSE @]
             /\ wirePolls' = [wirePolls EXCEPT ![i] = WirePolled(@, wire)]
             /\ streams' = IF r.res.tag = "Ready"
                           THEN [streams EXCEPT ![i] = NewStream(r.res.val)]
                           ELSE streams
             /\ last' = Op("poll_stream_future", i, <<>>, futs[i].state, wire, r.res)
             /\ nNotReady' = Bump(wire)
    /\ UNCHANGED <<conn, node, calls, args, nItems>>

PollStreamFuture == \E i \in 1..Len(futs) : PollStreamFutureAt(i)

\* The consumer pulls on the ResponseStream of call i.
PollStream ==
    \E i \in 1..Len(streams) :
      /\ streams[i].open
      /\ \E w \in WireStreamPolls(streams[i].inner) :
           LET res == ResponseStream_poll(streams[i], w)
               event == w.tag # "NotReady"
           IN  /\ event => nItems < MaxItems
               /\ streams' = [streams EXCEPT
                    ![i].inner.ended = @ \/ w.tag = "ReadyNone",
                    ![i].delivered = IF event THEN Append(@, w) ELSE @,
                    ![i].observed = IF res.tag # "NotReady" THEN Append(@, res) ELSE @]
               /\ last' = Op("poll_stream", i, <<>>, "open", w, res)
               /\ nNotReady' = Bump(w)
               /\ nItems' = IF event THEN nItems + 1 ELSE nItems
      /\ UNCHANGED <<conn, node, futs, calls, args, outcomes, wirePolls>>

\* Calls on one connection and the futures they return, polled in any order.
Next ==
    \/ PollConnect
    \/ Tip
    \/ PullBlocksToTip(ShortIdLists)
    \/ TipHeader
    \/ PollFuture
    \/ PollStreamFuture

Spec == Init /\ [][Next]_vars

\* The same, with a driver that keeps polling what is pending: the connect
\* future while connecting, and every adapter that is still Pending.
PollPendingAt(i) ==
    /\ i \in 1..Len(futs)
    /\ futs[i].state = "Pending"
    /\ PollFutureAt(i) \/ PollStreamFutureAt(i)

SpecFair ==
    /\ Spec
    /\ WF_vars(PollConnect)
    /\ \A i \in 1..MaxCalls : WF_vars(PollPendingAt(i))

\* The calls alone, over every identifier list up to MaxIds.
NextCalls ==
    \/ PollConnect
    \/ Tip
    \/ PullBlocksToTip(IdLists)
    \/ TipHeader

SpecCalls == Init /\ [][NextCalls]_vars

\* One call, just made on a ready client, followed to the end of its stream.
InitOne ==
    /\ conn = "ready"
    /\ calls = 1
    /\ \E r \in {Client_tip(<<>>)}
               \cup {Client_pull_blocks_to_tip(<<>>, from) : from \in {<<>>}} :
         /\ node = r.node
         /\ futs = <<r.fut>>
         /\ last = Op(IF r.fut.kind = "unary" THEN "tip" ELSE "pull_blocks_to_tip",
                      1, <<>>, "none", NotPolled, Ready(r.fut))
    /\ streams = <<NoStream>>
    /\ args = <<<<>>>>
    /\ outcomes = <<<<>>>>
    /\ wirePolls = <<NoWirePolls>>
    /\ nNotReady = 0
    /\ nItems = 0

NextOne ==
    \/ PollFuture
    \/ PollStreamFuture
    \/ PollStream

SpecOne == InitOne /\ [][NextOne]_vars

\* ---------------------------------------------------------------- claims
FutureOps == {"poll_future", "poll_stream_future"}

\* C1: a ResponseFuture or ResponseStreamFuture returns a terminal outcome (a
\* Ready value or an Err) on at most one poll; it is Finished exactly when it
\* has returned that outcome, it becomes Finished on that very poll, and it
\* never goes back from Finished to Pending.
C1_SingleTerminalOutcome ==
    /\ [](\A i \in 1..Len(futs) :
            /\ Len(outcomes[i]) <= 1
            /\ futs[i].state = "Finished" <=> Len(outcomes[i]) = 1)
    /\ [][\A i \in 1..Len(futs) :
            /\ futs[i].state = "Finished" => futs'[i].state = "Finished"
            /\ futs'[i].state # futs[i].state =>
                 /\ last'.op \in FutureOps /\ last'.i = i
                 /\ IsTerminal(last'.out)
                 /\ outcomes'[i] = Append(outcomes[i], last'.out)]_vars

\* C1 witness: a unary and a streaming-open adapter, each Finished after its
\* single terminal outcome, one of them a value and the other an error.
C1_Witness ==
    \E i, j \in 1..Len(futs) :
      /\ futs[i].kind = "unary" /\ futs[j].kind = "stream"
      /\ futs[i].state = "Finished" /\ futs[j].state = "Finished"
      /\ Len(outcomes[i]) = 1 /\ outcomes[i][1].tag = "Err"
      /\ Len(outcomes[j]) = 1 /\ outcomes[j][1].tag = "Ready"

\* C2: polling a ResponseFuture or ResponseStreamFuture that is already
\* Finished panics; it returns no NotReady, no value and no domain error,
\* whatever its terminal outcome was.
C2_FinishedPollPanics ==
    (last.op \in FutureOps /\ last.pre = "Finished") => last.out = Panic

\* C2 witness: an adapter whose terminal outcome was an error has been polled
\* again and panicked.
C2_Witness ==
    /\ last.op \in FutureOps
    /\ last.pre = "Finished"
    /\ last.out = Panic
    /\ outcomes[last.i][1].tag = "Err"

ValidBlock(b) == BlockDeserialize(b.content).ok

IsFormatErr(res) == res.tag = "Err" /\ res.err.kind = "Format"

\* C3 (as claimed): on a ResponseStream, a wire item that fails domain
\* deserialization is returned as a Format error, and no later pull on that
\* stream yields an item, even if the transport has valid items left.
C3_FormatErrorEndsStream ==
    \A i \in 1..Len(streams) :
      LET d == streams[i].delivered
          o == streams[i].observed
      IN  \A j \in 1..Len(o) :
            (d[j].tag = "ReadySome" /\ ~ValidBlock(d[j].val)) =>
               /\ IsFormatErr(o[j])
               /\ \A k \in (j + 1)..Len(o) : o[k].tag # "ReadySome"

\* C4: once a pull on a ResponseStream has returned end-of-sequence
\* (Ready(None)), no later pull on the same stream returns an item.
C4_NoItemAfterEnd ==
    \A i \in 1..Len(streams) :
      LET o == streams[i].observed
      IN  \A j \in 1..Len(o) : \A k \in (j + 1)..Len(o) :
            o[j].tag = "ReadyNone" => o[k].tag # "ReadySome"

\* C4 witness: a stream that returned end-of-sequence after an item and was
\* pulled again.
C4_Witness ==
    \E i \in 1..Len(streams) :
      LET o == streams[i].observed
      IN  /\ Len(o) = 3
          /\ o[1].tag = "ReadySome"
          /\ o[2].tag = "ReadyNone"

\* C5: when the transport delivers N valid block payloads and then
\* end-of-stream, with not-ready polls in between, the consumer observes
\* exactly N blocks, the k-th being the conversion of the k-th payload, and
\* then end-of-sequence, with no error.
C5_ItemsInOrder ==
    \A i \in 1..Len(streams) :
      LET d == streams[i].delivered
          o == streams[i].observed
      IN  (\A k \in 1..Len(d) :
             \/ d[k].tag = "ReadyNone"
             \/ d[k].tag = "ReadySome" /\ ValidBlock(d[k].val))
          => /\ Len(o) = Len(d)
             /\ \A k \in 1..Len(d) :
                  IF d[k].tag = "ReadyNone"
                  THEN o[k].tag = "ReadyNone"
                  ELSE /\ o[k].tag = "ReadySome"
                       /\ o[k].val = BlockDeserialize(d[k].val.content).val

\* C5 witness: two different valid payloads, then end-of-stream, all
\* observed, with a not-ready poll on the way.
C5_Witness ==
    \E i \in 1..Len(streams) :
      LET d == streams[i].delivered
          o == streams[i].observed
      IN  /\ Len(d) = 3 /\ Len(o) = 3
          /\ d[1].tag = "ReadySome" /\ ValidBlock(d[1].val)
          /\ d[2].tag = "ReadySome" /\ ValidBlock(d[2].val)
          /\ d[1].val # d[2].val
          /\ d[3].tag = "ReadyNone"
          /\ o[3].tag = "ReadyNone"
          /\ nNotReady > 0

PollOps == {"poll_future", "poll_stream_future", "poll_stream"}

\* Whether the conversion of what the wire side returned fails, by the domain
\* formats alone.
ConversionFails(op, w) ==
    \/ /\ op = "poll_future" /\ w.tag = "Ready"
       /\ ~IdDeserialize(w.val.id).ok \/ ~DateFromStr(w.val.blockdate).ok
    \/ /\ op = "poll_stream" /\ w.tag = "ReadySome"
       /\ ~ValidBlock(w.val)

\* C6: every error an adapter produces is classified by its cause: an error
\* of the wire future or stream surfaces as an Rpc error carrying it, a failed
\* byte deserialization or date parse as a Format error, never the other way
\* round, and neither is turned into a value, NotReady or end-of-sequence.
C6_ErrorsClassifiedByCause ==
    last.op \in PollOps =>
      /\ last.wire.tag = "Err" =>
           /\ last.out.tag = "Err"
           /\ last.out.err = [kind |-> "Rpc", cause |-> last.wire.err]
      /\ ConversionFails(last.op, last.wire) =>
           /\ last.out.tag = "Err"
           /\ last.out.err.kind = "Format"
           /\ last.out.err.cause \in {"bytes", "date"}
      /\ last.out.tag = "Err" =>
           \/ last.wire.tag = "Err" /\ last.out.err.kind = "Rpc"
           \/ ConversionFails(last.op, last.wire) /\ last.out.err.kind = "Format"

\* C6 witness: a stream pull on which the wire stream returned an error.
C6_Witness ==
    /\ last.op = "poll_stream"
    /\ last.wire.tag = "Err"
    /\ last.out.tag = "Err"
    /\ Len(streams[last.i].observed) > 1

\* C7: a tip response converts to the pair (id, date) only when the id bytes
\* deserialize and the date string parses; otherwise the result is a Format
\* error, with no partial result, no panic and no substituted date.
C7_TipConversion ==
    (last.op = "poll_future" /\ last.wire.tag = "Ready") =>
      LET id == IdDeserialize(last.wire.val.id)
          date == DateFromStr(last.wire.val.blockdate)
      IN  IF id.ok /\ date.ok
          THEN /\ last.out.tag = "Ready"
               /\ last.out.val = <<id.val, date.val>>
          ELSE IsFormatErr(last.out)

\* C7 witness: a tip response whose id deserializes and whose date does not
\* parse has been converted.
C7_Witness ==
    /\ last.op = "poll_future"
    /\ last.wire.tag = "Ready"
    /\ IdDeserialize(last.wire.val.id).ok
    /\ ~DateFromStr(last.wire.val.blockdate).ok
    /\ last.out.tag = "Err"

\* C8: the `from` field of every pull_blocks_to_tip request sent has the
\* length of the identifier list passed, and its k-th entry is the
\* serialization of the list's k-th identifier, the empty list included.
C8_FromPreservesOrder ==
    \A i \in 1..Len(node) :
      node[i].rpc = "PullBlocksToTip" =>
        /\ Len(node[i].from) = Len(args[i])
        /\ \A k \in 1..Len(args[i]) :
             node[i].from[k] = IdSerialize(args[i][k], <<>>).buf

\* C8 witness: requests sent for a list of two different identifiers and for
\* the empty list.
C8_Witness ==
    \E i, j \in 1..Len(node) :
      /\ node[i].rpc = "PullBlocksToTip" /\ args[i] = <<1, 256>>
      /\ node[j].rpc = "PullBlocksToTip" /\ args[j] = <<>>

\* C9: the bytes of an identifier in the request are exactly the bytes its
\* serialization wrote, neither truncated nor padded nor re-encoded: read
\* back from the request they give the identifier again.
C9_IdBytesUnchanged ==
    \A i \in 1..Len(node) :
      node[i].rpc = "PullBlocksToTip" =>
        \A k \in 1..Len(node[i].from) :
          /\ Len(node[i].from[k]) = IdWidth
          /\ IdDeserialize(node[i].from[k]) = [ok |-> TRUE, val |-> args[i][k]]

\* C9 witness: a request carrying two identifiers whose encodings differ in
\* byte order only.
C9_Witness ==
    \E i \in 1..Len(node) :
      /\ node[i].rpc = "PullBlocksToTip"
      /\ args[i] = <<256, 1>>
      /\ node[i].from = <<<<1, 0>>, <<0, 1>>>>

\* C10 (as claimed): every call to tip or pull_blocks_to_tip sends exactly one
\* request, so the requests sent are as many as the calls made.
C10_OneRequestPerCall == Len(node) = calls

\* C10 (amended): every call to tip or pull_blocks_to_tip that returns an
\* adapter sends exactly one request when it is made, a call that panics
\* sends none, and no poll of an adapter, whatever its outcome, sends one:
\* the requests sent are as many as the adapters handed out.
C10_OneRequestPerReturnedCall ==
    /\ [](Len(node) = Len(futs) /\ Len(node) <= calls)
    /\ [][/\ calls' = calls + 1 =>
               IF last'.out = Panic
               THEN node' = node
               ELSE Len(node') = Len(node) + 1 /\ SubSeq(node', 1, Len(node)) = node
          /\ calls' = calls => node' = node]_vars

\* C10 witness: after two calls, an adapter has returned a Format error and
\* has been polled again.
C10_Witness ==
    /\ calls = 2 /\ Len(node) = 2
    /\ last.op = "poll_future" /\ last.out = Panic
    /\ IsFormatErr(outcomes[last.i][1])

\* C11: tip_header always panics before it returns: it returns no adapter, no
\* default and no error, and it sends no request on the connection.
C11_TipHeaderPanics ==
    /\ [](last.op = "tip_header" => last.out = Panic)
    /\ [][last'.op = "tip_header" =>
            /\ node' = node
            /\ futs' = futs
            /\ outcomes' = outcomes]_vars

\* tip_header was called on a connection that had already carried a request.
C11_Witness ==
    /\ last.op = "tip_header"
    /\ last.out = Panic
    /\ Len(node) = 1

\* C12: connecting resolves to exactly one of a ready Client or the Connect
\* error wrapping the transport failure (a refused connection gives the Connect
\* error); it never panics, does not stay pending once the transport has
\* resolved, and the call adapters never produce a Connect error.
C12_ConnectResolves ==
    /\ [](last.op = "connect" =>
            /\ last.wire.tag = "NotReady" => last.out = NotReady /\ conn = "connecting"
            /\ last.wire.tag = "Ready" => last.out = Ready("Client") /\ conn = "ready"
            /\ last.wire.tag = "Err" =>
                 /\ last.out = Err([kind |-> "Connect", cause |-> last.wire.err])
                 /\ conn = "failed")
    /\ [](last.op \in FutureOps /\ last.out.tag = "Err" => last.out.err.kind # "Connect")
    /\ [](\A i \in 1..Len(outcomes) : \A k \in 1..Len(outcomes[i]) :
            outcomes[i][k].tag = "Err" => outcomes[i][k].err.kind # "Connect")
    /\ [][conn # "connecting" => conn' = conn]_vars
    /\ <>(conn \in {"ready", "failed"})

\* The peer refused the connection after the attempt had been pending.
C12_Witness ==
    /\ conn = "failed"
    /\ last.op = "connect"
    /\ last.wire = Err("refused")
    /\ last.out.tag = "Err"
    /\ nNotReady >= 1

\* C13: the stream-opening adapter converts no item: when its wire future is
\* ready it yields the ResponseStream wrapping the transport stream as it is,
\* its only error is the Rpc error of a failed wire future (never Format), and
\* a malformed first item is reported only by a pull on the returned stream.
C13_StreamOpenConvertsNothing ==
    /\ (last.op = "poll_stream_future" /\ last.pre = "Pending") =>
         /\ last.wire.tag = "Ready" => last.out = Ready([inner |-> last.wire.val])
         /\ last.wire.tag = "Err" => last.out = Err(convert_error(last.wire.err))
         /\ last.out.tag = "Err" => last.wire.tag = "Err" /\ last.out.err.kind = "Rpc"
    /\ \A i \in 1..Len(futs) :
         futs[i].kind = "stream" =>
           /\ \A k \in 1..Len(outcomes[i]) :
                outcomes[i][k].tag = "Err" => outcomes[i][k].err.kind = "Rpc"
           /\ LET d == streams[i].delivered
                  o == streams[i].observed
              IN  (Len(d) >= 1 /\ d[1].tag = "ReadySome" /\ ~ValidBlock(d[1].val)) =>
                    /\ outcomes[i] = <<Ready([inner |-> [ended |-> FALSE]])>>
                    /\ IsFormatErr(o[1])

\* The stream was opened, and its first item, malformed, failed on the first pull.
C13_Witness ==
    /\ Len(futs) = 1
    /\ futs[1].kind = "stream"
    /\ futs[1].state = "Finished"
    /\ outcomes[1][1].tag = "Ready"
    /\ Len(streams[1].delivered) = 1
    /\ streams[1].delivered[1].tag = "ReadySome"
    /\ ~ValidBlock(streams[1].delivered[1].val)
    /\ IsFormatErr(streams[1].observed[1])

\* C14: a Pending adapter polled while its wire future is not ready returns
\* NotReady and is left as it was, still Pending over the same wire future,
\* however many not-ready polls follow one another.
C14_NotReadyLeavesPending ==
    /\ []((last.op \in FutureOps /\ last.wire = NotReady) =>
            /\ last.pre = "Pending"
            /\ last.out = NotReady
            /\ futs[last.i].state = "Pending"
            /\ ~wirePolls[last.i].done
            /\ outcomes[last.i] = <<>>)
    /\ [][(last'.op \in FutureOps /\ last'.wire = NotReady) =>
            /\ futs' = futs
            /\ outcomes' = outcomes
            /\ streams' = streams
            /\ node' = node]_vars

\* The one adapter there is has been polled MaxNotReady times in a row while
\* its wire future was not ready.
C14_Witness ==
    /\ Len(futs) = 1
    /\ futs[1].state = "Pending"
    /\ last.op \in FutureOps
    /\ last.out = NotReady
    /\ nNotReady = MaxNotReady

\* C15: the unary adapter becomes Finished on every ready outcome of its wire
\* future, the failing ones included: a wire error gives the Rpc error, a
\* response whose conversion fails gives the Format error, and in both cases
\* the adapter is Finished, the conversion is not attempted again and the next
\* poll panics.
C15_FinishedOnEveryOutcome ==
    /\ (last.op = "poll_future" /\ last.pre = "Pending" /\ last.wire.tag # "NotReady") =>
         /\ futs[last.i].state = "Finished"
         /\ outcomes[last.i] = <<last.out>>
         /\ last.wire.tag = "Err" => last.out = Err(CoreError("Rpc", last.wire.err))
         /\ ConversionFails("poll_future", last.wire) => IsFormatErr(last.out)
    /\ (last.op = "poll_future" /\ last.pre = "Finished") =>
         /\ last.out = Panic
         /\ last.wire = NotPolled
    /\ \A i \in 1..Len(futs) :
         (futs[i].kind = "unary" /\ outcomes[i] # <<>>) =>
           /\ futs[i].state = "Finished"
           /\ Len(outcomes[i]) = 1
           /\ ~wirePolls[i].late

\* One call ended with the Format error of a failed conversion, another with
\* the Rpc error of a failed wire future, and the first was polled once more.
C15_Witness ==
    \E i, j \in 1..Len(futs) :
      /\ futs[i].kind = "unary"
      /\ Len(outcomes[i]) = 1
      /\ IsFormatErr(outcomes[i][1])
      /\ outcomes[j] = <<Err(CoreError("Rpc", "reset"))>>
      /\ futs[j].kind = "unary"
      /\ last.op = "poll_future"
      /\ last.i = i
      /\ last.pre = "Finished"
      /\ last.out = Panic

\* C16: on a ResponseStream a transport-level error is returned as the Rpc
\* error and ends the sequence: no later pull yields an item.
C16_RpcErrorEndsStream ==
    \A i \in 1..Len(streams) :
      LET d == streams[i].delivered
          o == streams[i].observed
      IN  \A j \in 1..Len(o) :
            d[j].tag = "Err" =>
               /\ o[j] = Err(CoreError("Rpc", d[j].err))
               /\ \A k \in (j + 1)..Len(o) : o[k].tag # "ReadySome"

\* C17: with several calls outstanding and their adapters polled in any
\* interleaving, a poll of one adapter changes the state of that adapter only:
\* every other adapter, its outcome and its wire future are as they were, and
\* each adapter keeps to a single terminal outcome of its own.
C17_PollsAreIndependent ==
    /\ [][last'.op \in FutureOps =>
            \A j \in 1..Len(futs) :
              j # last'.i =>
                /\ futs'[j] = futs[j]
                /\ outcomes'[j] = outcomes[j]
                /\ wirePolls'[j] = wirePolls[j]
                /\ streams'[j] = streams[j]]_vars
    /\ [](\A j \in 1..Len(futs) :
            /\ Len(outcomes[j]) <= 1
            /\ futs[j].state = "Finished" <=> Len(outcomes[j]) = 1)

\* Two calls of the same kind are outstanding; the later one has been polled to
\* its outcome while the earlier one is still Pending.
C17_Witness ==
    /\ Len(futs) = 2
    /\ futs[1].kind = futs[2].kind
    /\ futs[1].state = "Pending"
    /\ futs[2].state = "Finished"
    /\ Len(outcomes[2]) = 1
    /\ last.op \in FutureOps
    /\ last.i = 2

\* C18: an adapter polls its wire future once in each poll made while it is
\* Pending, and never again once that future has returned Ready or Err: later
\* polls panic before the wire future is reached.
C18_WireFutureNotPolledAfterDone ==
    /\ \A i \in 1..Len(futs) :
         /\ ~wirePolls[i].late
         /\ wirePolls[i].done <=> futs[i].state = "Finished"
    /\ last.op \in FutureOps =>
         /\ last.pre = "Pending" => last.wire # NotPolled
         /\ last.pre = "Finished" =>
              /\ last.wire = NotPolled
              /\ last.out = Panic
              /\ wirePolls[last.i].done

\* A stream-opening adapter whose wire future failed after a not-ready poll was
\* polled again and panicked without polling that future.
C18_Witness ==
    /\ last.op = "poll_stream_future"
    /\ last.pre = "Finished"
    /\ last.out = Panic
    /\ last.wire = NotPolled
    /\ outcomes[last.i] = <<Err(CoreError("Rpc", "reset"))>>
    /\ nNotReady >= 1

\* C19: if the wire future of a call becomes ready in the end and the driver
\* keeps polling the adapter while it answers NotReady, the adapter (of either
\* kind) eventually is Finished having returned exactly one terminal outcome
\* (time and again every adapter handed out so far is in that state); the
\* adapter answers NotReady only when its wire future did.
C19_EventuallyFinished ==
    /\ []<>(\A i \in 1..Len(futs) :
               futs[i].state = "Finished" /\ Len(outcomes[i]) = 1)
    /\ []((last.op \in FutureOps /\ last.out = NotReady) => last.wire = NotReady)
    /\ [](\A i \in 1..Len(futs) : Len(outcomes[i]) <= 1)

\* A unary and a stream-opening adapter have both finished, the last of them
\* just now, after not-ready polls.
C19_Witness ==
    /\ Len(futs) = 2
    /\ futs[1].kind # futs[2].kind
    /\ futs[1].state = "Finished" /\ Len(outcomes[1]) = 1
    /\ futs[2].state = "Finished" /\ Len(outcomes[2]) = 1
    /\ last.op \in FutureOps
    /\ last.pre = "Pending"
    /\ nNotReady = MaxNotReady

\* C20: if an identifier of the list fails to serialize, pull_blocks_to_tip
\* panics instead of returning an adapter or an error, before any request is
\* built or sent: no request ever carries a partial identifier list.
C20_SerializeFailurePanics ==
    /\ []((/\ last.op = "pull_blocks_to_tip"
           /\ \E k \in 1..Len(last.arg) : ~IdSerialize(last.arg[k], <<>>).ok) =>
            /\ last.out = Panic
            /\ last.i = 0)
    /\ [][(/\ last'.op = "pull_blocks_to_tip"
           /\ \E k \in 1..Len(last'.arg) : ~IdSerialize(last'.arg[k], <<>>).ok) =>
            /\ node' = node
            /\ futs' = futs
            /\ args' = args]_vars
    /\ [](\A i \in 1..Len(node) :
            node[i].rpc = "PullBlocksToTip" =>
              /\ Len(node[i].from) = Len(args[i])
              /\ \A k \in 1..Len(args[i]) : IdSerialize(args[i][k], <<>>).ok)

\* The second identifier of the list failed to serialize after the first had
\* been serialized, on a connection that had carried a request before.
C20_Witness ==
    /\ last.op = "pull_blocks_to_tip"
    /\ last.arg = <<1, 65536>>
    /\ last.out = Panic
    /\ Len(node) = 1
    /\ Len(futs) = 1

====
